---------------------------- MODULE Spec2Model ----------------------------
(*************************************************************************)
(* Model of sphinxval/utils/post_analysis.py: outcome classification     *)
(* (export_all_clear_incorrect, export_max_flux_incorrect), model        *)
(* filtering (get_file_prefix, read_in_metrics), the metric groups        *)
(* (plot_groups) and long-form assembly (make_box_plots).                *)
(*                                                                       *)
(* Strings are sequences of characters (or of word tokens for the fixed  *)
(* column names), so that Python's substring test `a in b` is computed   *)
(* and not assumed.  A DataFrame is a sequence of rows; a selection of   *)
(* it is the set (or the ordered sequence) of the row positions kept.    *)
(*************************************************************************)
EXTENDS Integers, Sequences, FiniteSets, TLC

VARIABLES
    sel_df,      \* the *_selections_*.pkl table read by the export functions
    out,         \* what the last export_* call computed, wrote and printed
    metrics_df,  \* the <prefix>_metrics.pkl table read by read_in_metrics
    exclude,     \* the caller's exclude list object (passed by reference)
    given,       \* the entries the caller put in that list
    ret,         \* the last read_in_metrics call: its arguments and result
    box_df,      \* the metrics table handed to make_box_plots
    box_out      \* the last make_box_plots call: its arguments and plots

vars == <<sel_df, out, metrics_df, exclude, given, ret, box_df, box_out>>

-----------------------------------------------------------------------------
(* Bounds *)

MaxBoolRows == 4    \* rows of an all-clear selections table
MaxFluxRows == 2    \* rows of a max-flux selections table
MaxModels == 3      \* rows of a metrics table read by read_in_metrics
MaxExclude == 2     \* entries the caller puts in the exclude list
MaxExcludeLen == 4  \* cap on the growth of the exclude list over calls
MaxBoxRows == 3     \* rows of the table handed to make_box_plots
MaxPipeRows == 2    \* rows of the table a read-then-plot request loads

-----------------------------------------------------------------------------
(* Strings *)

\* Python `needle in hay` for strings: needle occurs as a contiguous run.
Contains(needle, hay) ==
    \E i \in 0..(Len(hay) - Len(needle)) :
        SubSeq(hay, i + 1, i + Len(needle)) = needle

\* All sequences over S of length lo..hi.
SeqsOf(S, lo, hi) == UNION {[1..n -> S] : n \in lo..hi}

\* The positions of s that satisfy keep, in order (a boolean-mask selection
\* df[mask] over the positions idx of an earlier selection).
RECURSIVE Select(_, _)
Select(idx, keep) ==
    IF idx = <<>> THEN <<>>
    ELSE IF keep[Head(idx)] THEN <<Head(idx)>> \o Select(Tail(idx), keep)
         ELSE Select(Tail(idx), keep)

Range(s) == {s[i] : i \in DOMAIN s}

-----------------------------------------------------------------------------
(* Selections tables *)

\* A missing numeric cell (NaN): every comparison with it is False.
NaN == -1

\* Cells of the boolean columns "Observed SEP All Clear" and
\* "Predicted SEP All Clear": True, False or missing (None).
BoolCells == {"True", "False", "None"}

\* Cells of the numeric flux columns.
FluxCells == {NaN, 1, 2}

\* Thresholds passed by the caller.
Thresholds == {1, 2}

ObsFluxCol == <<"Observed Max Flux in Prediction Window">>
OnsetPeakCol == <<"Predicted SEP Peak Intensity", " (Onset Peak)">>
OnsetPeakUnitsCol == <<"Predicted SEP Peak Intensity", " (Onset Peak)", " ", "Units">>
MaxFluxCol == <<"Predicted SEP Peak Intensity", " Max (Max Flux)">>
MaxFluxUnitsCol == <<"Predicted SEP Peak Intensity", " Max (Max Flux)", " ", "Units">>
NoneCol == <<>>

\* The column lists a max-flux selections table can have: the observed
\* column, then each predicted quantity present followed by its units.
FluxSchemas ==
    { <<ObsFluxCol>>,
      <<ObsFluxCol, OnsetPeakCol, OnsetPeakUnitsCol>>,
      <<ObsFluxCol, MaxFluxCol, MaxFluxUnitsCol>>,
      <<ObsFluxCol, OnsetPeakCol, OnsetPeakUnitsCol, MaxFluxCol, MaxFluxUnitsCol>> }

NumericCols(columns) == {c \in Range(columns) : ~Contains(<<"Units">>, c)}

\* df is an all-clear selections table of n rows.
IsAllClearTable(df, n) ==
    \E r \in [1..n -> [obs : BoolCells, pred : BoolCells]] :
        df = [kind |-> "all_clear", columns |-> <<>>, rows |-> r]

\* df is a max-flux selections table of n rows.
IsFluxTable(df, n) ==
    \E cols \in FluxSchemas :
        \E r \in [1..n -> [NumericCols(cols) -> FluxCells]] :
            df = [kind |-> "max_flux", columns |-> cols, rows |-> r]


-----------------------------------------------------------------------------
(* export_all_clear_incorrect / export_max_flux_incorrect *)

Positions(rows) == [i \in 1..Len(rows) |-> i]

\* pandas element-wise comparisons; a missing cell compares False.
EqTrue(v) == v = "True"
EqFalse(v) == v = "False"
\* (mutant) a missing cell is compared like a number
LtIgnoringNaN(v, t) == v < t
Lt(v, t) == v # NaN /\ v < t
\* (mutant) a value equal to the threshold does not cross it
GeStrict(v, t) == v # NaN /\ v > t
Ge(v, t) == v # NaN /\ v >= t

\* [y]*len(dates) and sub[pred_col].to_list()
Repeat(y, n) == [i \in 1..n |-> y]
CellsOf(rows, idx, col) == [k \in 1..Len(idx) |-> rows[idx[k]][col]]

\* (mutant) both files are written whatever the selections hold
CsvFilesAlways(fa, miss) == {"_false_alarms.csv", "_misses.csv"}
\* The files fa_sub.to_csv and miss_sub.to_csv write: each only in the
\* else-branch of its emptiness test, named by the suffix that replaces
\* ".pkl".
CsvFiles(fa, miss) ==
    (IF fa = <<>> THEN {} ELSE {"_false_alarms.csv"})
    \cup (IF miss = <<>> THEN {} ELSE {"_misses.csv"})

NoOut ==
    [fn |-> "none", status |-> "none", threshold |-> 0, doplot |-> FALSE,
     pred_col |-> NoneCol,
     cn |-> <<>>, hits |-> <<>>, fa |-> <<>>, miss |-> <<>>,
     cn_fluxes |-> <<>>, hits_fluxes |-> <<>>, fa_fluxes |-> <<>>,
     miss_fluxes |-> <<>>,
     csv |-> {}, stdout |-> <<>>, plot |-> ""]

\* The four boolean selections of export_all_clear_incorrect.
AllClearCN(rows) ==
    Select(Positions(rows),
           [i \in DOMAIN rows |-> EqTrue(rows[i].obs) /\ EqTrue(rows[i].pred)])
AllClearHits(rows) ==
    Select(Positions(rows),
           [i \in DOMAIN rows |-> EqFalse(rows[i].obs) /\ EqFalse(rows[i].pred)])
\* (mutant) the false-alarm selection takes the condition of the misses
AllClearFASwapped(rows) ==
    Select(Positions(rows),
           [i \in DOMAIN rows |-> EqFalse(rows[i].obs) /\ EqTrue(rows[i].pred)])
AllClearFA(rows) ==
    Select(Positions(rows),
           [i \in DOMAIN rows |-> EqTrue(rows[i].obs) /\ EqFalse(rows[i].pred)])
AllClearMiss(rows) ==
    Select(Positions(rows),
           [i \in DOMAIN rows |-> EqFalse(rows[i].obs) /\ EqTrue(rows[i].pred)])

export_all_clear_incorrect(df, threshold, doplot) ==
    IF df.rows = <<>>
    THEN [NoOut EXCEPT !.fn = "all_clear", !.status = "returned",
                       !.threshold = threshold, !.doplot = doplot]
    ELSE
    LET cn == AllClearCN(df.rows)
        hits == AllClearHits(df.rows)
        fa == AllClearFA(df.rows)
        miss == AllClearMiss(df.rows)
    IN  [fn |-> "all_clear", status |-> "returned",
         threshold |-> threshold, doplot |-> doplot, pred_col |-> NoneCol,
         cn |-> cn, hits |-> hits, fa |-> fa, miss |-> miss,
         cn_fluxes |-> Repeat(threshold, Len(cn)),
         hits_fluxes |-> Repeat(threshold, Len(hits)),
         fa_fluxes |-> Repeat(threshold + 2, Len(fa)),
         miss_fluxes |-> Repeat(threshold - 2, Len(miss)),
         csv |-> CsvFiles(fa, miss),
         stdout |->
            (IF cn = <<>> THEN <<"No correct negatives identified.">> ELSE <<>>)
            \o (IF hits = <<>> THEN <<"No hits.">> ELSE <<>>)
            \o (IF fa = <<>> THEN <<"No false alarms identified.">> ELSE <<>>)
            \o (IF miss = <<>> THEN <<"No misses identified.">> ELSE <<>>),
         plot |-> IF doplot THEN "_incorrect.png" ELSE ""]

\* The loop that picks the predicted column: every column whose name holds
\* "Predicted SEP Peak Intensity" and not "Units" overwrites pred_col.
RECURSIVE PredColLoop(_, _)
PredColLoop(columns, pred_col) ==
    IF columns = <<>> THEN pred_col
    ELSE LET col == Head(columns) IN
         IF Contains(<<"Units">>, col)
         THEN PredColLoop(Tail(columns), pred_col)
         ELSE IF Contains(<<"Predicted SEP Peak Intensity">>, col)
              THEN PredColLoop(Tail(columns), col)
              ELSE PredColLoop(Tail(columns), pred_col)

\* The columns for which the loop prints "Predicted column is ...".
Candidates(columns) ==
    Select(Positions(columns),
           [i \in DOMAIN columns |->
                ~Contains(<<"Units">>, columns[i])
                /\ Contains(<<"Predicted SEP Peak Intensity">>, columns[i])])

\* The four threshold selections of export_max_flux_incorrect.
MaxFluxCN(rows, pred_col, threshold) ==
    Select(Positions(rows),
           [i \in DOMAIN rows |-> Lt(rows[i][ObsFluxCol], threshold)
                                  /\ Lt(rows[i][pred_col], threshold)])
MaxFluxHits(rows, pred_col, threshold) ==
    Select(Positions(rows),
           [i \in DOMAIN rows |-> Ge(rows[i][ObsFluxCol], threshold)
                                  /\ Ge(rows[i][pred_col], threshold)])
MaxFluxFA(rows, pred_col, threshold) ==
    Select(Positions(rows),
           [i \in DOMAIN rows |-> Lt(rows[i][ObsFluxCol], threshold)
                                  /\ Ge(rows[i][pred_col], threshold)])
MaxFluxMiss(rows, pred_col, threshold) ==
    Select(Positions(rows),
           [i \in DOMAIN rows |-> Ge(rows[i][ObsFluxCol], threshold)
                                  /\ Lt(rows[i][pred_col], threshold)])

\* How the call ends on an empty table: identify_unique(df, ...)[0] runs
\* before the emptiness test, and resume.identify_unique is not part of
\* the sources, so the call either raises there or prints and returns.
EmptyFluxOutcomes == {"IndexError", "returned"}

export_max_flux_incorrect(df, threshold, doplot, empty_outcome) ==
    IF df.rows = <<>>
    THEN [NoOut EXCEPT !.fn = "max_flux", !.status = empty_outcome,
                       !.threshold = threshold, !.doplot = doplot,
                       !.stdout = IF empty_outcome = "returned"
                                  THEN <<"Dataframe empty. Returning.">>
                                  ELSE <<>>]
    ELSE
    LET pred_col == PredColLoop(df.columns, NoneCol)
        found == [k \in 1..Len(Candidates(df.columns)) |-> "Predicted column is"]
    IN
    IF pred_col = NoneCol
    THEN \* df[None] raises KeyError in the first selection
         [NoOut EXCEPT !.fn = "max_flux", !.status = "KeyError",
                       !.threshold = threshold, !.doplot = doplot,
                       !.stdout = found]
    ELSE
    LET cn == MaxFluxCN(df.rows, pred_col, threshold)
        hits == MaxFluxHits(df.rows, pred_col, threshold)
        fa == MaxFluxFA(df.rows, pred_col, threshold)
        miss == MaxFluxMiss(df.rows, pred_col, threshold)
    IN  [fn |-> "max_flux", status |-> "returned",
         threshold |-> threshold, doplot |-> doplot, pred_col |-> pred_col,
         cn |-> cn, hits |-> hits, fa |-> fa, miss |-> miss,
         cn_fluxes |-> CellsOf(df.rows, cn, pred_col),
         hits_fluxes |-> CellsOf(df.rows, hits, pred_col),
         fa_fluxes |-> CellsOf(df.rows, fa, pred_col),
         miss_fluxes |-> CellsOf(df.rows, miss, pred_col),
         csv |-> CsvFiles(fa, miss),
         stdout |->
            found
            \o (IF cn = <<>> THEN <<"No correct negatives identified.">> ELSE <<>>)
            \o (IF hits = <<>> THEN <<"No hits identified.">> ELSE <<>>)
            \o (IF fa = <<>> THEN <<"No false alarms identified.">> ELSE <<>>)
            \o (IF miss = <<>> THEN <<"No misses identified.">> ELSE <<>>),
         plot |-> IF doplot THEN "_Outcomes.png" ELSE ""]

\* A caller exports the incorrect all-clear forecasts of the stored table.
\* A call reads nothing an earlier call left behind, so calls are explored
\* from the table as stored.
ExportAllClearIncorrect ==
    /\ out.fn = "none"
    /\ sel_df.kind = "all_clear"
    /\ \E threshold \in Thresholds, doplot \in BOOLEAN :
          out' = export_all_clear_incorrect(sel_df, threshold, doplot)
    /\ UNCHANGED <<sel_df, metrics_df, exclude, given, ret, box_df, box_out>>

\* A caller exports the incorrect max-flux forecasts of the stored table.
ExportMaxFluxIncorrect ==
    /\ out.fn = "none"
    /\ sel_df.kind = "max_flux"
    /\ \E threshold \in Thresholds, doplot \in BOOLEAN,
          empty_outcome \in EmptyFluxOutcomes :
          out' = export_max_flux_incorrect(sel_df, threshold, doplot, empty_outcome)
    /\ UNCHANGED <<sel_df, metrics_df, exclude, given, ret, box_df, box_out>>

NoBoxOut ==
    [called |-> FALSE, status |-> "none", quantity |-> "", anonymous |-> FALSE,
     highlight |-> <<>>, groups |-> <<>>, plots |-> <<>>]

NoRet ==
    [called |-> FALSE, status |-> "none", quantity |-> "", prefix |-> "",
     include |-> <<>>, exclude_in |-> <<>>, rows |-> <<>>]
NoBoxDf == [hasN |-> FALSE, rows |-> <<>>]

InitClassify ==
    /\ \/ \E n \in 0..MaxBoolRows : IsAllClearTable(sel_df, n)
       \/ \E n \in 0..MaxFluxRows : IsFluxTable(sel_df, n)
    /\ out = NoOut
    /\ metrics_df = <<>>
    /\ exclude = <<>>
    /\ given = <<>>
    /\ ret = NoRet
    /\ box_df = NoBoxDf
    /\ box_out = NoBoxOut

NextClassify == ExportAllClearIncorrect \/ ExportMaxFluxIncorrect

SpecClassify == InitClassify /\ [][NextClassify]_vars


-----------------------------------------------------------------------------
(* read_in_metrics *)

\* The sentinel 'All', spelled out so that `model in incl_model` sees its
\* letters.
All == <<"A", "l", "l">>

\* Model names of the tables: "A" stands for a short model name, "A2" for
\* a longer name that contains it, "2" for a name that shares a fragment
\* with "A2" only.  No name holds a regular expression metacharacter.
ModelNames == {<<"A">>, <<"A", "2">>, <<"2">>}

\* Tables of metrics: one row per entry, identified by its position; only
\* the 'Model' cell is read by read_in_metrics.
IsMetricsTable(df, n) == df \in [1..n -> ModelNames]

\* include arguments: the sentinel alone or followed by a fragment, one
\* fragment of a model name, or two fragments in either order.
IncludeArgs ==
    { <<All>>, <<All, <<"2">>>>, <<<<"2">>>>, <<<<"A", "2">>>>, <<<<"2", "A">>>>,
      <<<<"A", "2">>, <<"2", "A">>>>, <<<<"2", "A">>, <<"A", "2">>>>,
      <<<<"2">>, <<"A", "2">>>> }

\* exclude lists a caller builds: a fragment of a model name or the empty
\* string.
ExcludeArgs == SeqsOf({<<"A">>, <<>>}, 0, MaxExclude)

\* Quantity names passed by callers: a valid one and an unknown one.
QuantityArgs == {"All Clear", "Proton Flux"}

\* The dict of get_file_prefix.
FilePrefix ==
    [q \in {"All Clear", "Advanced Warning Time", "Probability",
            "Threshold Crossing Time", "Start Time", "End Time",
            "Onset Peak Time", "Onset Peak", "Max Flux Time", "Max Flux",
            "Max Flux in Prediction Window", "Duration", "Fluence",
            "Time Profile"} |->
        CASE q = "All Clear" -> "all_clear"
          [] q = "Advanced Warning Time" -> "awt"
          [] q = "Probability" -> "probability"
          [] q = "Threshold Crossing Time" -> "threshold_crossing_time"
          [] q = "Start Time" -> "start_time"
          [] q = "End Time" -> "end_time"
          [] q = "Onset Peak Time" -> "peak_intensity_time"
          [] q = "Onset Peak" -> "peak_intensity"
          [] q = "Max Flux Time" -> "peak_intensity_max_time"
          [] q = "Max Flux" -> "peak_intensity_max"
          [] q = "Max Flux in Prediction Window" -> "max_flux_in_pred_win"
          [] q = "Duration" -> "duration"
          [] q = "Fluence" -> "fluence"
          [] OTHER -> "time_profile"]

\* get_file_prefix: the prefix, or "sys.exit" for a name not in the dict.
get_file_prefix(quantity) ==
    IF quantity \notin DOMAIN FilePrefix THEN "sys.exit"
    ELSE FilePrefix[quantity]

\* resume.identify_unique(df, 'Model'): the distinct values of the column,
\* in order of first appearance.
RECURSIVE identify_unique(_)
identify_unique(column) ==
    IF column = <<>> THEN <<>>
    ELSE LET front == identify_unique(SubSeq(column, 1, Len(column) - 1))
             last == column[Len(column)]
         IN  IF last \in Range(front) THEN front ELSE Append(front, last)

\* for incl_model in include: if incl_model in model: included = True
Included(model, include) ==
    \E k \in DOMAIN include : Contains(include[k], model)

\* The first loop: every model no include entry occurs in is appended to
\* the exclude list.
RECURSIVE AppendNotIncluded(_, _, _)
AppendNotIncluded(models, include, excl) ==
    IF models = <<>> THEN excl
    ELSE AppendNotIncluded(Tail(models), include,
            IF Included(Head(models), include) THEN excl
            ELSE Append(excl, Head(models)))

\* model.replace('+','\+').replace('(','\(').replace(')','\)')
RECURSIVE Escape(_)
Escape(model) ==
    IF model = <<>> THEN <<>>
    ELSE (IF Head(model) \in {"+", "(", ")"}
          THEN <<"\\", Head(model)>> ELSE <<Head(model)>>)
         \o Escape(Tail(model))

\* The literal text a pattern built by Escape matches.
RECURSIVE Literal(_)
Literal(pattern) ==
    IF pattern = <<>> THEN <<>>
    ELSE IF Head(pattern) = "\\" /\ Len(pattern) > 1
         THEN <<pattern[2]>> \o Literal(SubSeq(pattern, 3, Len(pattern)))
         ELSE <<Head(pattern)>> \o Literal(Tail(pattern))

\* df['Model'].str.contains(pattern): a regular-expression search, which
\* for the patterns of this model (fragments, escaped) is a search for the
\* literal text.
StrContains(name, pattern) == Contains(Literal(pattern), name)

\* for incl_model in include: if model in incl_model: included_model =
\* incl_model  -- the last include entry the exclude entry occurs in.
RECURSIVE IncludedModel(_, _, _)
IncludedModel(model, include, included_model) ==
    IF include = <<>> THEN included_model
    ELSE IncludedModel(model, Tail(include),
            IF Contains(model, Head(include)) THEN Head(include)
            ELSE included_model)

\* (mutant) the empty exclude entry is processed like any other
RemoveStepNoEmptyTest(df, idx, entry, include) ==
    LET model == Escape(entry)
        included_model == IncludedModel(model, include, <<>>)
    IN  IF included_model # <<>>
        THEN Select(idx, [i \in DOMAIN df |->
                ~StrContains(df[i], model) \/ StrContains(df[i], included_model)])
        ELSE Select(idx, [i \in DOMAIN df |-> ~StrContains(df[i], model)])
\* One pass of the removal loop: the rows idx of df left after the exclude
\* entry is processed.
RemoveStep(df, idx, entry, include) ==
    IF entry = <<>> THEN idx
    ELSE
    LET model == Escape(entry)
        included_model == IncludedModel(model, include, <<>>)
    IN  IF included_model # <<>>
        THEN Select(idx, [i \in DOMAIN df |->
                ~StrContains(df[i], model) \/ StrContains(df[i], included_model)])
        ELSE Select(idx, [i \in DOMAIN df |-> ~StrContains(df[i], model)])

RECURSIVE RemoveLoop(_, _, _, _)
RemoveLoop(df, idx, excl, include) ==
    IF excl = <<>> THEN idx
    ELSE RemoveLoop(df, RemoveStep(df, idx, Head(excl), include),
                    Tail(excl), include)

\* The exclude list after the first loop.
ExcludeAfter(df, include, excl) ==
    IF include[1] # All
    THEN AppendNotIncluded(identify_unique(df), include, excl)
    ELSE excl

\* read_in_metrics: the rows returned (positions of df, in order).
read_in_metrics(df, include, excl) ==
    RemoveLoop(df, Positions(df), ExcludeAfter(df, include, excl), include)

\* One call read_in_metrics(path, quantity, include, exclude) on the stored
\* table, with the arguments drawn from the given sets: what it leaves in
\* the caller's list and what it returns.
ReadCall(quantities, includes) ==
    \E quantity \in quantities :
        IF get_file_prefix(quantity) = "sys.exit"
        THEN /\ ret' = [NoRet EXCEPT !.called = TRUE, !.status = "sys.exit",
                                     !.quantity = quantity,
                                     !.exclude_in = exclude]
             /\ UNCHANGED exclude
        ELSE \E include \in includes :
               LET excl == ExcludeAfter(metrics_df, include, exclude) IN
               /\ Len(excl) <= MaxExcludeLen
               /\ exclude' = excl
               /\ ret' = [called |-> TRUE, status |-> "returned",
                          quantity |-> quantity,
                          prefix |-> get_file_prefix(quantity),
                          include |-> include, exclude_in |-> exclude,
                          rows |-> RemoveLoop(metrics_df, Positions(metrics_df),
                                              excl, include)]

\* A caller reads the metrics of a quantity, passing its exclude list.
ReadInMetrics ==
    /\ ReadCall(QuantityArgs, IncludeArgs)
    /\ UNCHANGED <<sel_df, out, metrics_df, given, box_df, box_out>>

InitFilter ==
    /\ \E n \in 0..MaxModels : IsMetricsTable(metrics_df, n)
    /\ given \in ExcludeArgs
    /\ exclude = given
    /\ ret = NoRet
    /\ sel_df = [kind |-> "none", columns |-> <<>>, rows |-> <<>>]
    /\ out = NoOut
    /\ box_df = NoBoxDf
    /\ box_out = NoBoxOut

NextFilter == ReadInMetrics

SpecFilter == InitFilter /\ [][NextFilter]_vars

-----------------------------------------------------------------------------
(* plot_groups / make_box_plots *)

\* groups is unbound when no branch of plot_groups assigns it.
Unbound == <<"UnboundLocalError">>

FluxTypes == {"Onset Peak", "Max Flux", "Fluence",
              "Max Flux in Prediction Window", "Time Profile"}
TimeTypes == {"Threshold Crossing Time", "Start Time", "End Time",
              "Onset Peak Time", "Max Flux Time"}

AllClearGroups ==
    << <<"All Clear 'True Positives' (Hits)",
         "All Clear 'False Positives' (False Alarms)",
         "All Clear 'True Negatives' (Correct Negatives)",
         "All Clear 'False Negatives' (Misses)">>,
       <<"Percent Correct", "Bias", "Hit Rate", "False Alarm Rate",
         "Frequency of Misses", "Frequency of Hits">>,
       <<"Probability of Correct Negatives",
         "Frequency of Correct Negatives", "False Alarm Ratio",
         "Detection Failure Ratio", "Threat Score">>,
       <<"Gilbert Skill Score", "True Skill Statistic",
         "Heidke Skill Score", "Odds Ratio Skill Score",
         "Symmetric Extreme Dependency Score">>,
       <<"Number SEP Events Correctly Predicted",
         "Number SEP Events Missed", "Odds Ratio">> >>

ProbabilityGroups ==
    << <<"Brier Score", "Brier Skill Score",
         "Spearman Correlation Coefficient", "Area Under ROC Curve">> >>

\* (mutant) the two percent-error groups are listed as one
FluxGroupsMerged ==
    << <<"Linear Regression Slope",
         "Pearson Correlation Coefficient (Linear)",
         "Pearson Correlation Coefficient (Log)",
         "Spearman Correlation Coefficient (Linear)">>,
       <<"Mean Error (ME)", "Median Error (MedE)">>,
       <<"Mean Absolute Error (MAE)",
         "Median Absolute Error (MedAE)",
         "Root Mean Square Error (RMSE)">>,
       <<"Mean Log Error (MLE)", "Median Log Error (MedLE)">>,
       <<"Mean Absolute Log Error (MALE)",
         "Median Absolute Log Error (MedALE)",
         "Root Mean Square Log Error (RMSLE)">>,
       <<"Mean Percent Error (MPE)",
         "Mean Symmetric Percent Error (MSPE)",
         "Mean Symmetric Absolute Percent Error (SMAPE)",
         "Mean Absolute Percent Error (MAPE)",
         "Median Symmetric Accuracy (MdSA)",
         "Mean Accuracy Ratio (MAR)">> >>
FluxGroups ==
    << <<"Linear Regression Slope",
         "Pearson Correlation Coefficient (Linear)",
         "Pearson Correlation Coefficient (Log)",
         "Spearman Correlation Coefficient (Linear)">>,
       <<"Mean Error (ME)", "Median Error (MedE)">>,
       <<"Mean Absolute Error (MAE)",
         "Median Absolute Error (MedAE)",
         "Root Mean Square Error (RMSE)">>,
       <<"Mean Log Error (MLE)", "Median Log Error (MedLE)">>,
       <<"Mean Absolute Log Error (MALE)",
         "Median Absolute Log Error (MedALE)",
         "Root Mean Square Log Error (RMSLE)">>,
       <<"Mean Percent Error (MPE)",
         "Mean Symmetric Percent Error (MSPE)",
         "Mean Symmetric Absolute Percent Error (SMAPE)">>,
       <<"Mean Absolute Percent Error (MAPE)",
         "Median Symmetric Accuracy (MdSA)",
         "Mean Accuracy Ratio (MAR)">> >>

\* plot_groups: four independent tests, each assigning groups when it
\* holds; the value returned is the last one assigned.
plot_groups(quantity) ==
    LET g1 == IF quantity = "All Clear" THEN AllClearGroups ELSE Unbound
        g2 == IF quantity = "Probability" THEN ProbabilityGroups ELSE g1
        g3 == IF quantity \in FluxTypes THEN FluxGroups ELSE g2
        g4 == IF quantity \in TimeTypes THEN <<>> ELSE g3
    IN  g4

\* cfg.in_percent: the metric columns stored as fractions and shown in
\* percent.
InPercent == {"Percent Correct"}

\* str(n) for n >= 0: the decimal digits.
Digit(d) == <<"0", "1", "2", "3", "4", "5", "6", "7", "8", "9">>[d + 1]
RECURSIVE Str(_)
Str(n) == IF n < 10 THEN <<Digit(n)>> ELSE Str(n \div 10) \o <<Digit(n % 10)>>

ModelSpace == <<"M", "o", "d", "e", "l", " ">>
ModelsLabel == <<"M", "o", "d", "e", "l", "s">>

\* Rows of the table handed to make_box_plots: model name, energy channel,
\* threshold, forecast count and the value its metric cells hold.
BoxChannels == {<<"10 MeV", "10 pfu">>, <<"100 MeV", "1 pfu">>}
BoxRows ==
    [Model : {<<"A">>, <<"B">>}, ch : BoxChannels, N : {2, 10}, val : {1}]
IsBoxTable(df, n) ==
    \E hasN \in BOOLEAN : \E r \in [1..n -> BoxRows] :
        df = [hasN |-> hasN, rows |-> r]

\* Arguments of make_box_plots.
HighlightArgs == {<<>>, <<"A">>, <<"1">>}
BoxQuantityArgs == {"All Clear", "Probability", "Start Time", "Duration"}

\* resume.identify_unique(df,'Energy Channel')
EnergyChannels(rows) ==
    identify_unique([i \in DOMAIN rows |-> rows[i].ch[1]])

\* resume.identify_thresholds_per_energy_channel(df, ...)[ek]
ThresholdsOf(rows, ek) ==
    identify_unique(
        [k \in 1..Len(Select(Positions(rows),
                             [i \in DOMAIN rows |-> rows[i].ch[1] = ek])) |->
            rows[Select(Positions(rows),
                        [i \in DOMAIN rows |-> rows[i].ch[1] = ek])[k]].ch[2]])

\* df.loc[(df['Energy Channel'] == ek) & (df['Threshold'] == tk)]
SubTable(rows, ek, tk) ==
    LET idx == Select(Positions(rows),
                      [i \in DOMAIN rows |-> rows[i].ch = <<ek, tk>>])
    IN  [k \in 1..Len(idx) |-> rows[idx[k]]]

\* if anonymous and highlight == '': model_list[j] = "Model " + str(j)
Anonymize(model_list, anonymous, highlight) ==
    IF anonymous /\ highlight = <<>>
    THEN [j \in DOMAIN model_list |-> ModelSpace \o Str(j - 1)]
    ELSE model_list

\* for jj in range(len(nfcasts)): model_list[jj] += " (" + str(n) + ")"
AddCounts(model_list, nfcasts) ==
    [j \in DOMAIN model_list |->
        IF j <= Len(nfcasts)
        THEN model_list[j] \o <<" ", "(">> \o Str(nfcasts[j]) \o <<")">>
        ELSE model_list[j]]

\* The highlight loop: a label that holds highlight is kept, any other
\* becomes "Models".
Relabel(model_list, highlight) ==
    [j \in DOMAIN model_list |->
        IF Contains(highlight, model_list[j]) THEN model_list[j]
        ELSE ModelsLabel]
InList(model_list, highlight) ==
    \E j \in DOMAIN model_list : Contains(highlight, model_list[j])

\* The labels of one metric column, before the decision to emit them.
Labels(sub, hasN, anonymous, highlight) ==
    LET model_list == [j \in DOMAIN sub |-> sub[j].Model]
        nfcasts == IF hasN THEN [j \in DOMAIN sub |-> sub[j].N] ELSE <<>>
        counted == AddCounts(Anonymize(model_list, anonymous, highlight), nfcasts)
    IN  IF highlight # <<>> THEN Relabel(counted, highlight) ELSE counted

\* (mutant) the column is emitted whether or not a label held the highlight
EmitsAlways(sub, hasN, anonymous, highlight) == TRUE
\* Whether the column is emitted: always without highlight, else only when
\* some label held the highlight.
Emits(sub, hasN, anonymous, highlight) ==
    LET model_list == [j \in DOMAIN sub |-> sub[j].Model]
        nfcasts == IF hasN THEN [j \in DOMAIN sub |-> sub[j].N] ELSE <<>>
    IN  highlight = <<>>
        \/ InList(AddCounts(Anonymize(model_list, anonymous, highlight), nfcasts),
                  highlight)

\* vals of one metric column.
Vals(sub, metric_col) ==
    [j \in DOMAIN sub |->
        IF metric_col \in InPercent THEN sub[j].val * 100 ELSE sub[j].val]

\* The three lists a group accumulates over its metric columns; labels and
\* emits are what the label steps give for every column of the sub-table.
RECURSIVE GroupLists(_, _, _, _)
GroupLists(group, sub, labels, emits) ==
    IF group = <<>>
    THEN [Metrics |-> <<>>, Models |-> <<>>, Values |-> <<>>]
    ELSE
    LET metric_col == Head(group)
        rest == GroupLists(Tail(group), sub, labels, emits)
        vals == Vals(sub, metric_col)
    IN  IF emits
        THEN [Metrics |-> Repeat(metric_col, Len(vals)) \o rest.Metrics,
              Models |-> labels \o rest.Models,
              Values |-> vals \o rest.Values]
        ELSE rest

\* The box_plot_metrics calls of one (energy channel, threshold) pair.
GroupPlots(groups, sub, ek, tk, hasN, anonymous, highlight) ==
    LET labels == Labels(sub, hasN, anonymous, highlight)
        emits == Emits(sub, hasN, anonymous, highlight)
    IN  [grp \in DOMAIN groups |->
            [ek |-> ek, tk |-> tk, grp |-> grp, group |-> groups[grp],
             rows |-> Len(sub),
             df |-> GroupLists(groups[grp], sub, labels, emits)]]

RECURSIVE ThresholdPlots(_, _, _, _, _, _, _)
ThresholdPlots(thresh, groups, rows, ek, hasN, anonymous, highlight) ==
    IF thresh = <<>> THEN <<>>
    ELSE GroupPlots(groups, SubTable(rows, ek, Head(thresh)), ek, Head(thresh),
                    hasN, anonymous, highlight)
         \o ThresholdPlots(Tail(thresh), groups, rows, ek, hasN, anonymous,
                           highlight)

RECURSIVE ChannelPlots(_, _, _, _, _, _)
ChannelPlots(energy_channels, groups, rows, hasN, anonymous, highlight) ==
    IF energy_channels = <<>> THEN <<>>
    ELSE ThresholdPlots(ThresholdsOf(rows, Head(energy_channels)), groups, rows,
                        Head(energy_channels), hasN, anonymous, highlight)
         \o ChannelPlots(Tail(energy_channels), groups, rows, hasN, anonymous,
                         highlight)

\* make_box_plots: the sequence of box_plot_metrics calls it makes.
make_box_plots(df, quantity, anonymous, highlight) ==
    IF plot_groups(quantity) = Unbound
    THEN [called |-> TRUE, status |-> "UnboundLocalError",
          quantity |-> quantity, anonymous |-> anonymous,
          highlight |-> highlight, groups |-> <<>>, plots |-> <<>>]
    ELSE [called |-> TRUE, status |-> "returned",
          quantity |-> quantity, anonymous |-> anonymous,
          highlight |-> highlight, groups |-> plot_groups(quantity),
          plots |-> ChannelPlots(EnergyChannels(df.rows), plot_groups(quantity),
                                 df.rows, df.hasN, anonymous, highlight)]

\* A caller makes the box plots of the table.  A call reads nothing an
\* earlier call left behind, so calls are explored from the table as loaded.
MakeBoxPlots ==
    /\ ~box_out.called
    /\ \E quantity \in BoxQuantityArgs, anonymous \in BOOLEAN,
          highlight \in HighlightArgs :
          box_out' = make_box_plots(box_df, quantity, anonymous, highlight)
    /\ UNCHANGED <<sel_df, out, metrics_df, exclude, given, ret, box_df>>

InitBox ==
    /\ \E n \in 0..MaxBoxRows : IsBoxTable(box_df, n)
    /\ box_out = NoBoxOut
    /\ sel_df = [kind |-> "none", columns |-> <<>>, rows |-> <<>>]
    /\ out = NoOut
    /\ metrics_df = <<>>
    /\ exclude = <<>>
    /\ given = <<>>
    /\ ret = NoRet

NextBox == MakeBoxPlots

SpecBox == InitBox /\ [][NextBox]_vars

-----------------------------------------------------------------------------
(* A request: read_in_metrics, then make_box_plots on what it returned *)

\* Quantity names a request can carry: the names of get_file_prefix and an
\* unknown one.
PipeQuantityArgs == DOMAIN FilePrefix \cup {"Proton Flux"}

\* include arguments of a request: everything, or the models named "A".
PipeIncludeArgs == { <<All>>, <<<<"A">>>> }

\* The 'Model' column of the table, which is all read_in_metrics reads.
ModelColumn(rows) == [i \in DOMAIN rows |-> rows[i].Model]

\* The request reads the metrics of its quantity.  box_df holds the table
\* as loaded and, once read_in_metrics returned, the rows it kept; after
\* sys.exit nothing has been read.
RequestRead ==
    /\ ~ret.called
    /\ ReadCall(PipeQuantityArgs, PipeIncludeArgs)
    /\ box_df' = IF ret'.status = "returned"
                 THEN [box_df EXCEPT !.rows =
                          [k \in 1..Len(ret'.rows) |-> box_df.rows[ret'.rows[k]]]]
                 ELSE box_df
    /\ UNCHANGED <<sel_df, out, metrics_df, given, box_out>>

\* The request, still running, makes the box plots of the table returned
\* for the same quantity.
RequestBoxPlots ==
    /\ ret.status = "returned"
    /\ ~box_out.called
    /\ \E anonymous \in BOOLEAN, highlight \in HighlightArgs :
          box_out' = make_box_plots(box_df, ret.quantity, anonymous, highlight)
    /\ UNCHANGED <<sel_df, out, metrics_df, exclude, given, ret, box_df>>

InitRequest ==
    /\ \E n \in 0..MaxPipeRows : IsBoxTable(box_df, n)
    /\ metrics_df = ModelColumn(box_df.rows)
    /\ box_out = NoBoxOut
    /\ sel_df = [kind |-> "none", columns |-> <<>>, rows |-> <<>>]
    /\ out = NoOut
    /\ exclude = <<>>
    /\ given = <<>>
    /\ ret = NoRet

NextRequest == RequestRead \/ RequestBoxPlots

SpecRequest == InitRequest /\ [][NextRequest]_vars

-----------------------------------------------------------------------------
(* Claims on the outcome classification (checked under SpecClassify) *)

\* A call classified the rows of a non-empty table.
Classified == out.status = "returned" /\ sel_df.rows # <<>>

\* The observed and predicted cells of row i as the last call read them.
ObsCell(i) ==
    IF sel_df.kind = "all_clear" THEN sel_df.rows[i].obs
    ELSE sel_df.rows[i][ObsFluxCol]
PredCell(i) ==
    IF sel_df.kind = "all_clear" THEN sel_df.rows[i].pred
    ELSE sel_df.rows[i][out.pred_col]
Missing(v) == v = (IF sel_df.kind = "all_clear" THEN "None" ELSE NaN)
BothPresent == {i \in DOMAIN sel_df.rows : ~Missing(ObsCell(i)) /\ ~Missing(PredCell(i))}

Hit == Range(out.hits)
Miss == Range(out.miss)
FalseAlarm == Range(out.fa)
CorrectNegative == Range(out.cn)

\* C1: in both modes the four selected subsets hit, miss, falseAlarm and
\* correctNegative are pairwise disjoint and their union is exactly the set
\* of rows whose observed and predicted cells are both present.
C1_Partition ==
    Classified =>
        /\ Hit \cap Miss = {} /\ Hit \cap FalseAlarm = {}
        /\ Hit \cap CorrectNegative = {} /\ Miss \cap FalseAlarm = {}
        /\ Miss \cap CorrectNegative = {} /\ FalseAlarm \cap CorrectNegative = {}
        /\ Hit \cup Miss \cup FalseAlarm \cup CorrectNegative = BothPresent

\* C1 witness: a threshold classification of a table that has a row with a
\* missing cell next to a row that landed in a bucket.
C1_Witness ==
    /\ Classified /\ out.fn = "max_flux"
    /\ BothPresent # {} /\ BothPresent # DOMAIN sel_df.rows

\* The bucket row i is in: the set of bucket names whose selection holds i.
BucketsOf(i) ==
    {b \in {"hit", "miss", "falseAlarm", "correctNegative"} :
        i \in (CASE b = "hit" -> Hit [] b = "miss" -> Miss
                 [] b = "falseAlarm" -> FalseAlarm
                 [] OTHER -> CorrectNegative)}

\* C2: in boolean mode a row with both cells present is placed by
\* (observed, predicted): (False,False) -> hit, (True,True) ->
\* correctNegative, (True,False) -> falseAlarm, (False,True) -> miss,
\* whatever the threshold of the call.
C2_BooleanPlacement ==
    (Classified /\ out.fn = "all_clear") =>
        \A i \in BothPresent :
            BucketsOf(i) =
                { CASE ObsCell(i) = "False" /\ PredCell(i) = "False" -> "hit"
                    [] ObsCell(i) = "True" /\ PredCell(i) = "True" -> "correctNegative"
                    [] ObsCell(i) = "True" /\ PredCell(i) = "False" -> "falseAlarm"
                    [] OTHER -> "miss" }

\* C2 witness: the boolean call on the rows (T,T), (F,F), (T,F), (F,T)
\* put exactly one row in each bucket.
C2_Witness ==
    /\ Classified /\ out.fn = "all_clear"
    /\ sel_df.rows = << [obs |-> "True", pred |-> "True"],
                        [obs |-> "False", pred |-> "False"],
                        [obs |-> "True", pred |-> "False"],
                        [obs |-> "False", pred |-> "True"] >>
    /\ CorrectNegative = {1} /\ Hit = {2} /\ FalseAlarm = {3} /\ Miss = {4}

\* The bucket the threshold table of continuous mode gives a row, where a
\* cell crosses the threshold exactly when cell >= threshold.
Crosses(v) == Ge(v, out.threshold)
ThresholdBucket(i) ==
    CASE Crosses(ObsCell(i)) /\ Crosses(PredCell(i)) -> "hit"
      [] ~Crosses(ObsCell(i)) /\ ~Crosses(PredCell(i)) -> "correctNegative"
      [] ~Crosses(ObsCell(i)) /\ Crosses(PredCell(i)) -> "falseAlarm"
      [] OTHER -> "miss"

\* C3 as stated: in continuous mode every row is placed by the threshold
\* table (a missing cell does not cross).
C3_EveryRowPlaced ==
    (Classified /\ out.fn = "max_flux") =>
        \A i \in DOMAIN sel_df.rows : BucketsOf(i) = {ThresholdBucket(i)}

\* C3 amended: in continuous mode every row with both cells present is
\* placed by the threshold table, a cell equal to the threshold crossing.
C3_PresentRowsPlaced ==
    (Classified /\ out.fn = "max_flux") =>
        \A i \in BothPresent : BucketsOf(i) = {ThresholdBucket(i)}

\* C3 witness: a row whose observed and predicted cells both equal the
\* threshold was classified.
C3_Witness ==
    /\ Classified /\ out.fn = "max_flux"
    /\ \E i \in BothPresent :
          ObsCell(i) = out.threshold /\ PredCell(i) = out.threshold

\* C4: the predicted column resolves, and rows are classified, only when
\* exactly one candidate column exists; with none or several the call fails.
C4_ExactlyOneCandidate ==
    (out.fn = "max_flux" /\ sel_df.rows # <<>>) =>
        (out.status = "returned" <=> Len(Candidates(sel_df.columns)) = 1)


\* Every message the export functions print.
RoutineMessages ==
    {"No correct negatives identified.", "No hits.", "No hits identified.",
     "No false alarms identified.", "No misses identified.",
     "Predicted column is", "Dataframe empty. Returning."}

\* The rows the last call read that miss the observed or predicted cell.
MissingRows == DOMAIN sel_df.rows \ BothPresent

\* C12: when the table holds a row whose observed or predicted cell is
\* missing, the call reports those rows on its output (it returns nothing
\* to the caller): it prints something besides its routine messages.
C12_MissingRowsReported ==
    (Classified /\ MissingRows # {}) =>
        \E k \in DOMAIN out.stdout : out.stdout[k] \notin RoutineMessages

\* C13: in both modes "_false_alarms.csv" is written exactly when the
\* falseAlarm selection is non-empty and "_misses.csv" exactly when the
\* miss selection is non-empty, no other csv is written, and a call on an
\* empty table writes no file at all.
C13_CsvIffNonEmpty ==
    out.fn # "none" =>
        /\ "_false_alarms.csv" \in out.csv <=> FalseAlarm # {}
        /\ "_misses.csv" \in out.csv <=> Miss # {}
        /\ out.csv \subseteq {"_false_alarms.csv", "_misses.csv"}
        /\ sel_df.rows = <<>> => out.csv = {} /\ out.plot = ""

\* C13 witness: a threshold call with hits and false alarms but no misses
\* wrote the false-alarm file only.
C13_Witness ==
    /\ Classified /\ out.fn = "max_flux"
    /\ Hit # {} /\ FalseAlarm # {} /\ Miss = {}
    /\ out.csv = {"_false_alarms.csv"}

-----------------------------------------------------------------------------
(* Claims on read_in_metrics (checked under SpecFilter) *)

Returned == ret.status = "returned"

SurvivesUnderAll(name, e) ==
    \/ e = <<>>
    \/ ~Contains(e, name)
    \/ Contains(e, All) /\ Contains(All, name)

C6_IncludedRetained ==
    (Returned /\ All \notin Range(ret.include) /\ ret.exclude_in = <<>>) =>
        Range(ret.rows) =
            {i \in DOMAIN metrics_df : Included(metrics_df[i], ret.include)}

\* C7: when an exclude entry e occurs in include entries, the removal step
\* for e keeps every row whose model name contains one of those include
\* entries and removes the rows that contain e but none of them.
C7_SpecificIncludeWins ==
    Returned =>
        \A k \in DOMAIN ret.exclude_in :
            LET e == ret.exclude_in[k]
                holders == {s \in Range(ret.include) : Contains(e, s)}
                kept == Range(RemoveStep(metrics_df, Positions(metrics_df),
                                         e, ret.include))
            IN  (e # <<>> /\ holders # {}) =>
                    \A i \in DOMAIN metrics_df :
                        /\ (\E s \in holders : Contains(s, metrics_df[i]))
                               => i \in kept
                        /\ (Contains(e, metrics_df[i])
                            /\ ~\E s \in holders : Contains(s, metrics_df[i]))
                               => i \notin kept

\* C8: the caller's exclude list holds exactly the entries the caller put
\* in it, after any sequence of calls, and a call's result is the one the
\* caller's entries give.
C8_ExcludeUntouched ==
    /\ exclude = given
    /\ Returned => ret.rows = read_in_metrics(metrics_df, ret.include, given)


-----------------------------------------------------------------------------
(* Claims on make_box_plots (checked under SpecBox) *)

BoxReturned == box_out.status = "returned"

IsDigit(c) == c \in {"0", "1", "2", "3", "4", "5", "6", "7", "8", "9"}

\* The label is "Model <integer>" and nothing else.
IsModelInteger(label) ==
    /\ Len(label) > Len(ModelSpace)
    /\ SubSeq(label, 1, Len(ModelSpace)) = ModelSpace
    /\ \A k \in (Len(ModelSpace) + 1)..Len(label) : IsDigit(label[k])

\* C9: with anonymous set and no highlight every assembled row is labelled
\* "Model <integer>" and nothing else, in every sub-table and for every
\* metric column, with or without the forecast-count column.
C9_AnonymousLabels ==
    (BoxReturned /\ box_out.anonymous /\ box_out.highlight = <<>>) =>
        \A p \in DOMAIN box_out.plots :
            \A k \in DOMAIN box_out.plots[p].df.Models :
                IsModelInteger(box_out.plots[p].df.Models[k])

\* The label of a row as derived from the table: the model name, followed
\* by " (N)" when the forecast-count column is present.
OriginalLabel(row) ==
    IF box_df.hasN
    THEN row.Model \o <<" ", "(">> \o Str(row.N) \o <<")">>
    ELSE row.Model

\* What a plot must hold under a highlight: nothing when no label of the
\* sub-table contains it; else, column after column, each row with its
\* original label if that contains the highlight and "Models" if not.
HighlightedAsClaimed(plot) ==
    LET sub == SubTable(box_df.rows, plot.ek, plot.tk)
        n == Len(sub)
        matched == \E j \in DOMAIN sub :
                       Contains(box_out.highlight, OriginalLabel(sub[j]))
    IN  IF ~matched
        THEN plot.df.Metrics = <<>> /\ plot.df.Models = <<>>
             /\ plot.df.Values = <<>>
        ELSE /\ Len(plot.df.Models) = Len(plot.group) * n
             /\ \A c \in DOMAIN plot.group : \A j \in 1..n :
                   /\ plot.df.Metrics[(c - 1) * n + j] = plot.group[c]
                   /\ plot.df.Models[(c - 1) * n + j] =
                        IF Contains(box_out.highlight, OriginalLabel(sub[j]))
                        THEN OriginalLabel(sub[j]) ELSE ModelsLabel

\* C10: with a highlight, every emitted row whose label contains it keeps
\* that label, every other emitted row is labelled "Models", a metric
\* column with no label containing it contributes no rows; the metric
\* names, model labels and values always have equal length.
C10_HighlightLabels ==
    BoxReturned =>
        \A p \in DOMAIN box_out.plots :
            /\ Len(box_out.plots[p].df.Metrics) = Len(box_out.plots[p].df.Models)
            /\ Len(box_out.plots[p].df.Models) = Len(box_out.plots[p].df.Values)
            /\ box_out.highlight # <<>> => HighlightedAsClaimed(box_out.plots[p])

\* C10 witness: under a highlight, one plot holds a kept label next to a
\* "Models" label and another plot of the same call, over a non-empty
\* sub-table, holds no rows.
C10_Witness ==
    /\ BoxReturned /\ box_out.highlight # <<>>
    /\ \E p, q \in DOMAIN box_out.plots :
          /\ ModelsLabel \in Range(box_out.plots[p].df.Models)
          /\ \E k \in DOMAIN box_out.plots[p].df.Models :
                box_out.plots[p].df.Models[k] # ModelsLabel
          /\ box_out.plots[q].rows > 0
          /\ box_out.plots[q].df.Models = <<>>


-----------------------------------------------------------------------------
(* Claims on plot_groups and on a request (checked under SpecRequest) *)

\* The number of groups the claim gives a quantity, with n groups for the
\* flux-valued ones.
GroupCount(quantity, n) ==
    CASE quantity \in {"Onset Peak", "Max Flux", "Fluence",
                       "Max Flux in Prediction Window", "Time Profile"} -> n
      [] quantity = "All Clear" -> 5
      [] quantity = "Probability" -> 1
      [] OTHER -> 0

\* The quantities C11 speaks of.
Grouped ==
    {"Onset Peak", "Max Flux", "Fluence", "Max Flux in Prediction Window",
     "Time Profile", "All Clear", "Probability", "Threshold Crossing Time",
     "Start Time", "End Time", "Onset Peak Time", "Max Flux Time"}

\* C11 as stated: plot_groups returns 6 groups for each flux-valued
\* quantity, 5 for "All Clear", 1 for "Probability" and none for each
\* time-valued quantity.
C11_SixFluxGroups ==
    (box_out.called /\ box_out.quantity \in Grouped) =>
        /\ box_out.status = "returned"
        /\ Len(box_out.groups) = GroupCount(box_out.quantity, 6)

\* C11 amended: plot_groups returns 7 groups for each flux-valued quantity,
\* 5 for "All Clear", 1 for "Probability" and none for each time-valued
\* quantity.
C11_SevenFluxGroups ==
    (box_out.called /\ box_out.quantity \in Grouped) =>
        /\ box_out.status = "returned"
        /\ Len(box_out.groups) = GroupCount(box_out.quantity, 7)

\* C11 witness: the groups of "Fluence" were asked for and plotted over a
\* non-empty table.
C11_Witness ==
    /\ box_out.status = "returned" /\ box_out.quantity = "Fluence"
    /\ Len(box_out.groups) = 7 /\ Len(box_out.plots) = 7

\* C14: every quantity name get_file_prefix accepts gets a defined group
\* sequence from plot_groups, so the plots of the request are made, and
\* every name it rejects ends the request at sys.exit with no table read
\* and no plot attempted.
C14_ValidationConsistent ==
    /\ (ret.called /\ ret.quantity \in DOMAIN FilePrefix) =>
           ret.status = "returned"
    /\ (ret.called /\ ret.quantity \notin DOMAIN FilePrefix) =>
           ret.status = "sys.exit" /\ ret.rows = <<>> /\ ~box_out.called
    /\ box_out.called =>
           box_out.status = "returned" /\ plot_groups(ret.quantity) # Unbound

=============================================================================
